---- MODULE Spec2Model ----
(***************************************************************************)
(* A model of db/models/oauth.js: the `oauths` table with its unique index,*)
(* the login-completion handler OAuth.V2 (an async function whose awaits   *)
(* are the points where concurrent invocations interleave), and the        *)
(* provider-registration helper OAuth.setupStrategy.                       *)
(*                                                                         *)
(* A storage call is two steps: the database executes it (Db... actions),  *)
(* and later the handler resumes after the await (After... actions).       *)
(***************************************************************************)
EXTENDS Naturals, Sequences, FiniteSets

\* ---------------------------------------------------------------- bounds

\* Handler invocations started in one behaviour.
MaxCalls == 3

\* The invocations in flight at one time are told apart by the slot they
\* run in; a slot is taken again once its invocation has ended.
Slots == {1, 2}

\* ---------------------------------------------------------------- inputs

\* What the strategy hands to OAuth.V2: the same github account twice (with
\* a new token and a changed display name), and a google account that was
\* issued the same external id.
Logins ==
  { [accessToken |-> "at1", refreshToken |-> "rt1",
     profile |-> [provider |-> "github", id |-> "42", displayName |-> "Ada"]],
    [accessToken |-> "at2", refreshToken |-> "rt2",
     profile |-> [provider |-> "github", id |-> "42", displayName |-> "Ada L"]],
    [accessToken |-> "at1", refreshToken |-> "rt1",
     profile |-> [provider |-> "google", id |-> "42", displayName |-> "Bob"]] }

\* Two accounts of one provider with different external ids: a new one, and
\* one whose identity row exists already (see FrameInit).
FrameLogins ==
  { [accessToken |-> "at1", refreshToken |-> "rt1",
     profile |-> [provider |-> "github", id |-> "42", displayName |-> "Ada"]],
    [accessToken |-> "at2", refreshToken |-> "rt2",
     profile |-> [provider |-> "github", id |-> "7", displayName |-> "Eve"]] }

NullString == "NULL"
NullJson == [provider |-> "NULL", id |-> "NULL", displayName |-> "NULL"]
\* userId 0 is the NULL foreign key; a user argument 0 is `undefined`.
NoUser == 0
NoError == "null"

\* ----------------------------------------------------------------- state

VARIABLES
  rows,        \* the oauths table: a sequence of rows, a row's id is its index
  users,       \* the users table: a sequence of rows, a row's id is its index
  pc,          \* per slot: where the async function OAuth.V2 is suspended
  args,        \* per slot: accessToken, refreshToken, profile
  op,          \* per slot: the state of each storage call of the invocation
  oauth,       \* per slot: id of the row findOrCreate resolved to (0: none)
  created,     \* per slot: the `created` flag findOrCreate resolved to
  user,        \* per slot: what getUser resolved to (0: null)
  createdUser, \* per slot: what User.create resolved to (0: none)
  doneLog,     \* per slot: the calls of `done` made by the invocation
  escaped,     \* per slot: the promise returned by OAuth.V2 was rejected
  calls,       \* number of invocations started so far
  overlapped,  \* per slot (history): another invocation was in flight meanwhile
  rivals,      \* per slot (history): another invocation for the same
               \* (provider, id) was in flight meanwhile
  atCall,      \* per slot (history): when the invocation started, the user
               \* its identity was linked to (0: no row, or no user) and
               \* the size of the users table
  su           \* the last call of OAuth.setupStrategy and what it did

v2vars == <<rows, users, pc, args, op, oauth, created, user, createdUser,
            doneLog, escaped, calls, overlapped, rivals, atCall>>
vars == <<rows, users, pc, args, op, oauth, created, user, createdUser,
          doneLog, escaped, calls, overlapped, rivals, atCall, su>>

\* ------------------------------------------------------- the oauths table

\* db.define('oauths', {...}): a fresh row holds the `where` values and NULLs.
NewRow(provider, uid) ==
  [ provider |-> provider, uid |-> uid,
    accessToken |-> NullString, refreshToken |-> NullString,
    token |-> NullString, tokenSecret |-> NullString,
    profileJson |-> NullJson, userId |-> NoUser ]

\* The rows matching findOrCreate's where: {provider, uid}.
Matching(provider, uid) ==
  { i \in 1..Len(rows) : rows[i].provider = provider /\ rows[i].uid = uid }

\* A slip: the index declared on the (provider, uid) pair.
UniqueViolationMutPair(provider, uid) == Matching(provider, uid) # {}

\* indexes: [{fields: ['uid'], unique: true}] -- an insert is refused when
\* a row with the same uid exists, whatever its provider.
UniqueViolation(provider, uid) ==
  \E i \in 1..Len(rows) : rows[i].uid = uid

\* The user linked to the identity (provider, uid); 0 when there is no row
\* or the row has no user.
LinkOf(provider, uid) ==
  IF Matching(provider, uid) = {} THEN NoUser
  ELSE rows[CHOOSE i \in Matching(provider, uid) : TRUE].userId

\* ------------------------------------------------- the handler's promises

\* The storage calls of one invocation: none (not made), pending (made, the
\* database has not executed it), ok (fulfilled), err (rejected), uniq
\* (rejected with a unique-constraint error), late (getUser or save rejected
\* after the other of the two had already rejected Promise.all).
NoOps == [find |-> "none", get |-> "none", save |-> "none",
          create |-> "none", set |-> "none"]

Rejected(s) == s \in {"err", "uniq", "late"}
Settled(s) == s \in {"ok", "err", "uniq", "late"}

\* The error a rejected call rejects with.
ErrorOf(s) == IF s = "uniq" THEN "SequelizeUniqueConstraintError"
              ELSE "SequelizeDatabaseError"

NoPending(p) ==
  /\ op[p].find # "pending" /\ op[p].get # "pending" /\ op[p].save # "pending"
  /\ op[p].create # "pending" /\ op[p].set # "pending"

\* Some storage call of the invocation rejected.
AnyRejected(p) ==
  \/ Rejected(op[p].find) \/ Rejected(op[p].get) \/ Rejected(op[p].save)
  \/ Rejected(op[p].create) \/ Rejected(op[p].set)

InFlight(p) == pc[p] \notin {"idle", "finished"} \/ ~NoPending(p)

\* Promise.all([oauth.getUser(), oauth.save()]): rejects as soon as one of the
\* two rejects, fulfils when both have.
JoinRejected(p) == Rejected(op[p].get) \/ Rejected(op[p].save)
\* A slip: only getUser awaited, save left running.
JoinFulfilledMutGetOnly(p) == op[p].get = "ok"
JoinFulfilled(p) == op[p].get = "ok" /\ op[p].save = "ok"
\* Promise.all rejects with the reason of the first of the two to reject; a
\* later rejection of the other is ignored.
GetUserError == "SequelizeDatabaseError in getUser"
SaveError == "SequelizeDatabaseError in save"
JoinError(p) == IF op[p].get = "err" THEN GetUserError ELSE SaveError
\* The state of a getUser or save that rejects, `other` being the state of
\* the other one.
RejectionAfter(other) == IF Rejected(other) THEN "late" ELSE "err"

\* A slip: the test `if (user)` never taken.
UserFoundMutNever(u) == FALSE
\* `if (user)`: getUser resolved to a user, not to null.
UserFound(u) == u # NoUser

\* A slip: the user named after the external id.
NewUserMutUid(profile) == [name |-> profile.id]
\* User.create({name: profile.displayName})
NewUser(profile) == [name |-> profile.displayName]

\* ------------------------------------------------------ calls of `done`

\* The invocation ends: `entries` are the calls of done it made on its way
\* out, `esc` whether its promise was rejected.
Finish(p, entries, esc) ==
  /\ pc' = [pc EXCEPT ![p] = "finished"]
  /\ doneLog' = [doneLog EXCEPT ![p] = @ \o entries]
  /\ escaped' = [escaped EXCEPT ![p] = esc]

\* What the catch block passes to done: done(err), one argument.
CatchCall(err) == [err |-> err, user |-> NoUser]

\* A slip: a catch block that swallows the error without calling done.
CatchBlockMutSwallow(p, err) == Finish(p, <<>>, FALSE)
\* catch (err) { done(err) }: an exception thrown by done here leaves the
\* async function, whose promise is rejected.
CatchBlock(p, err) ==
  \E throws \in BOOLEAN : Finish(p, <<CatchCall(err)>>, throws)

\* done(null, u) inside the try block: when done throws, the catch block
\* runs and calls done again, with the exception.
DoneOk(p, u) ==
  \E throws \in BOOLEAN :
    IF ~throws
      THEN Finish(p, <<[err |-> NoError, user |-> u]>>, FALSE)
      ELSE \E throws2 \in BOOLEAN :
             Finish(p, <<[err |-> NoError, user |-> u],
                         CatchCall("ErrorThrownByDone")>>, throws2)

\* ------------------------------------------------------------- OAuth.V2

\* The call of OAuth.V2 up to its first await: the debug lines, then
\* OAuth.findOrCreate({where: {provider, uid}}) is issued. The invocation
\* takes the lowest free slot.
Invoke(p, accessToken, refreshToken, profile) ==
  /\ pc[p] \in {"idle", "finished"}
  /\ NoPending(p)
  /\ \A q \in Slots : q < p => InFlight(q)
  /\ calls < MaxCalls
  /\ calls' = calls + 1
  /\ pc' = [pc EXCEPT ![p] = "awaitFind"]
  /\ args' = [args EXCEPT ![p] = [accessToken |-> accessToken,
                                  refreshToken |-> refreshToken,
                                  profile |-> profile]]
  /\ op' = [op EXCEPT ![p] = [NoOps EXCEPT !.find = "pending"]]
  /\ oauth' = [oauth EXCEPT ![p] = 0]
  /\ created' = [created EXCEPT ![p] = FALSE]
  /\ user' = [user EXCEPT ![p] = NoUser]
  /\ createdUser' = [createdUser EXCEPT ![p] = NoUser]
  /\ doneLog' = [doneLog EXCEPT ![p] = <<>>]
  /\ escaped' = [escaped EXCEPT ![p] = FALSE]
  /\ LET others == { q \in Slots \ {p} : InFlight(q) }
     IN  overlapped' = [q \in Slots |->
                          IF q = p THEN others # {}
                          ELSE IF q \in others THEN TRUE ELSE overlapped[q]]
  /\ LET same == { q \in Slots \ {p} :
                     /\ InFlight(q)
                     /\ args[q].profile.provider = profile.provider
                     /\ args[q].profile.id = profile.id }
     IN  rivals' = [q \in Slots |->
                      IF q = p THEN same # {}
                      ELSE IF q \in same THEN TRUE ELSE rivals[q]]
  /\ atCall' = [atCall EXCEPT ![p] =
                  [link |-> LinkOf(profile.provider, profile.id),
                   users |-> Len(users)]]
  /\ UNCHANGED <<rows, users, su>>

\* The database executes findOrCreate atomically: the matching row, or a new
\* one, unless the unique index refuses the insert; or the call fails.
DbFindOrCreate(p) ==
  /\ op[p].find = "pending"
  /\ \E fail \in BOOLEAN :
       LET provider == args[p].profile.provider
           uid == args[p].profile.id
           found == Matching(provider, uid)
       IN  IF fail
             THEN /\ op' = [op EXCEPT ![p].find = "err"]
                  /\ UNCHANGED <<rows, oauth, created>>
           ELSE IF found # {}
             THEN /\ op' = [op EXCEPT ![p].find = "ok"]
                  /\ oauth' = [oauth EXCEPT ![p] = CHOOSE i \in found : TRUE]
                  /\ UNCHANGED <<rows, created>>
           ELSE IF UniqueViolation(provider, uid)
             THEN /\ op' = [op EXCEPT ![p].find = "uniq"]
                  /\ UNCHANGED <<rows, oauth, created>>
           ELSE /\ op' = [op EXCEPT ![p].find = "ok"]
                /\ rows' = Append(rows, NewRow(provider, uid))
                /\ oauth' = [oauth EXCEPT ![p] = Len(rows) + 1]
                /\ created' = [created EXCEPT ![p] = TRUE]
  /\ UNCHANGED <<users, pc, args, user, createdUser, doneLog, escaped, calls,
                 overlapped, rivals, atCall, su>>

\* After `await OAuth.findOrCreate`: the instance gets profileJson and
\* accessToken, and getUser and save are both issued (Promise.all).
AfterFind(p) ==
  /\ pc[p] = "awaitFind"
  /\ Settled(op[p].find)
  /\ IF Rejected(op[p].find)
       THEN /\ CatchBlock(p, ErrorOf(op[p].find))
            /\ UNCHANGED op
       ELSE /\ pc' = [pc EXCEPT ![p] = "awaitAll"]
            /\ op' = [op EXCEPT ![p].get = "pending", ![p].save = "pending"]
            /\ UNCHANGED <<doneLog, escaped>>
  /\ UNCHANGED <<rows, users, args, oauth, created, user, createdUser, calls,
                 overlapped, rivals, atCall, su>>

\* The database executes oauth.getUser(): the user the row is linked to at
\* that moment (0 for null).
DbGetUser(p) ==
  /\ op[p].get = "pending"
  /\ \E fail \in BOOLEAN :
       IF fail
         THEN /\ op' = [op EXCEPT ![p].get = RejectionAfter(op[p].save)]
              /\ UNCHANGED user
         ELSE /\ op' = [op EXCEPT ![p].get = "ok"]
              /\ user' = [user EXCEPT ![p] = rows[oauth[p]].userId]
  /\ UNCHANGED <<rows, users, pc, args, oauth, created, createdUser, doneLog,
                 escaped, calls, overlapped, rivals, atCall, su>>

\* A slip: save writes the whole instance as findOrCreate made or loaded it
\* when the row had no user, the foreign key included.
SavedRowMutClobbersLink(row, a) ==
  [row EXCEPT !.profileJson = a.profile, !.accessToken = a.accessToken,
              !.userId = NoUser]
\* A slip: line 53 missing, save writes the profile only.
SavedRowMutProfileOnly(row, a) == [row EXCEPT !.profileJson = a.profile]
\* A slip: the refreshToken argument stored along with the accessToken.
SavedRowMutStoresRefreshToken(row, a) ==
  [row EXCEPT !.profileJson = a.profile, !.accessToken = a.accessToken,
              !.refreshToken = a.refreshToken]
\* What oauth.save() writes: the two fields the handler changed on the
\* instance (oauth.profileJson = profile; oauth.accessToken = accessToken).
SavedRow(row, a) ==
  [row EXCEPT !.profileJson = a.profile, !.accessToken = a.accessToken]

\* The database executes oauth.save().
DbSave(p) ==
  /\ op[p].save = "pending"
  /\ \E fail \in BOOLEAN :
       IF fail
         THEN /\ op' = [op EXCEPT ![p].save = RejectionAfter(op[p].get)]
              /\ UNCHANGED rows
         ELSE /\ op' = [op EXCEPT ![p].save = "ok"]
              /\ rows' = [rows EXCEPT ![oauth[p]] = SavedRow(@, args[p])]
  /\ UNCHANGED <<users, pc, args, oauth, created, user, createdUser, doneLog,
                 escaped, calls, overlapped, rivals, atCall, su>>

\* After `await Promise.all([...])`: a rejection goes to the catch block; a
\* linked user is handed to done; otherwise User.create is issued.
AfterAll(p) ==
  /\ pc[p] = "awaitAll"
  /\ JoinRejected(p) \/ JoinFulfilled(p)
  /\ IF JoinRejected(p)
       THEN /\ CatchBlock(p, JoinError(p))
            /\ UNCHANGED op
       ELSE IF UserFound(user[p])
         THEN /\ DoneOk(p, user[p])
              /\ UNCHANGED op
         ELSE /\ pc' = [pc EXCEPT ![p] = "awaitCreate"]
              /\ op' = [op EXCEPT ![p].create = "pending"]
              /\ UNCHANGED <<doneLog, escaped>>
  /\ UNCHANGED <<rows, users, args, oauth, created, user, createdUser, calls,
                 overlapped, rivals, atCall, su>>

\* The database executes User.create({name: profile.displayName}).
DbCreateUser(p) ==
  /\ op[p].create = "pending"
  /\ \E fail \in BOOLEAN :
       IF fail
         THEN /\ op' = [op EXCEPT ![p].create = "err"]
              /\ UNCHANGED <<users, createdUser>>
         ELSE /\ op' = [op EXCEPT ![p].create = "ok"]
              /\ users' = Append(users, NewUser(args[p].profile))
              /\ createdUser' = [createdUser EXCEPT ![p] = Len(users) + 1]
  /\ UNCHANGED <<rows, pc, args, oauth, created, user, doneLog, escaped, calls,
                 overlapped, rivals, atCall, su>>

\* After `await User.create`: oauth.setUser(createdUser) is issued.
AfterCreate(p) ==
  /\ pc[p] = "awaitCreate"
  /\ Settled(op[p].create)
  /\ IF Rejected(op[p].create)
       THEN /\ CatchBlock(p, ErrorOf(op[p].create))
            /\ UNCHANGED op
       ELSE /\ pc' = [pc EXCEPT ![p] = "awaitSet"]
            /\ op' = [op EXCEPT ![p].set = "pending"]
            /\ UNCHANGED <<doneLog, escaped>>
  /\ UNCHANGED <<rows, users, args, oauth, created, user, createdUser, calls,
                 overlapped, rivals, atCall, su>>

\* The database executes oauth.setUser(createdUser): the row's foreign key.
DbSetUser(p) ==
  /\ op[p].set = "pending"
  /\ \E fail \in BOOLEAN :
       IF fail
         THEN /\ op' = [op EXCEPT ![p].set = "err"]
              /\ UNCHANGED rows
         ELSE /\ op' = [op EXCEPT ![p].set = "ok"]
              /\ rows' = [rows EXCEPT ![oauth[p]].userId = createdUser[p]]
  /\ UNCHANGED <<users, pc, args, oauth, created, user, createdUser, doneLog,
                 escaped, calls, overlapped, rivals, atCall, su>>

\* After `await oauth.setUser`: done(null, createdUser).
AfterSet(p) ==
  /\ pc[p] = "awaitSet"
  /\ Settled(op[p].set)
  /\ IF Rejected(op[p].set)
       THEN CatchBlock(p, ErrorOf(op[p].set))
       ELSE DoneOk(p, createdUser[p])
  /\ UNCHANGED <<rows, users, args, op, oauth, created, user, createdUser,
                 calls, overlapped, rivals, atCall, su>>

\* ------------------------------------------------- OAuth.setupStrategy

\* The keys a config object may hold, in the order they were inserted
\* (Object.keys and for...in both enumerate in that order).
KeyOrder == <<"clientID", "clientSecret", "callbackURL">>
ConfigKeys == { KeyOrder[i] : i \in 1..Len(KeyOrder) }

\* JavaScript values a key may hold: undefined, the falsy values that are
\* not undefined, and a non-empty string.
JsValues == {"undefined", "null", "emptyString", "zero", "false", "abc"}

\* A config object: some of the keys, each with a value.
Configs == UNION { [K -> JsValues] : K \in SUBSET ConfigKeys }

ProviderNames == {"github", "google"}
\* The oauth field of the argument: left out, or a callback of the caller's.
OauthArgs == {"undefined", "customCallback"}

\* Object.keys(config)
ObjectKeys(config) == SelectSeq(KeyOrder, LAMBDA k : k \in DOMAIN config)

\* A slip: the skip decided by !value, as the log loop tests.
IsUndefinedMutFalsy(value) ==
  value \in {"undefined", "null", "emptyString", "zero", "false"}
\* A slip: the test for null instead of undefined.
IsUndefinedMutNull(value) == value = "null"
\* typeof value === 'undefined'
IsUndefined(value) == value = "undefined"

\* !value
Falsy(value) == value \in {"undefined", "null", "emptyString", "zero", "false"}

\* Object.keys(config).map(k => config[k]).filter(value => typeof value ===
\* 'undefined'): the undefined values of the config (the source calls the
\* array undefinedKeys).
undefinedKeys(config) ==
  LET keys == ObjectKeys(config)
      values == [i \in 1..Len(keys) |-> config[keys[i]]]
  IN  SelectSeq(values, IsUndefined)

\* A slip: the supplied callback ignored.
OauthOrDefaultMutAlwaysV2(oauthArg) == "OAuth.V2"
\* The default of the destructured argument: oauth = OAuth.V2.
OauthOrDefault(oauthArg) ==
  IF oauthArg = "undefined" THEN "OAuth.V2" ELSE oauthArg

\* The debug lines.
LogNeeds(provider, key) ==
  [msg |-> "needs environment var", provider |-> provider, key |-> key]
LogSkip(provider) ==
  [msg |-> "will not initialize", provider |-> provider, key |-> ""]
LogInit(provider) ==
  [msg |-> "initializing provider", provider |-> provider, key |-> ""]

\* for (let key in config) if (!config[key]) debug('... needs environment
\* var %s', provider, key)
NeedsLines(provider, config) ==
  LET keys == SelectSeq(ObjectKeys(config), LAMBDA k : Falsy(config[k]))
  IN  [i \in 1..Len(keys) |-> LogNeeds(provider, keys[i])]

\* new strategy(config, oauth)
StrategyInstance(config, callback) == [config |-> config, oauth |-> callback]

NoConfig == [k \in {} |-> "undefined"]

NoSetup ==
  [ called |-> FALSE, provider |-> "", config |-> NoConfig,
    oauthArg |-> "undefined", strategyThrows |-> FALSE, useThrows |-> FALSE,
    logs |-> <<>>, constructed |-> <<>>,
    used |-> <<>>, threw |-> "nothing", returned |-> "undefined" ]

\* A slip: line 98 wrapped in a try/catch that swallows the error.
ThrownMutCaught(strategyThrows, useThrows) == "nothing"
\* passport.use(new strategy(config, oauth)) stands outside any try: what
\* the constructor throws, else what passport.use throws, leaves
\* setupStrategy.
Thrown(strategyThrows, useThrows) ==
  IF strategyThrows THEN "strategy"
  ELSE IF useThrows THEN "passport.use"
  ELSE "nothing"

\* One call of OAuth.setupStrategy({provider, strategy, config, oauth,
\* passport}); strategyThrows and useThrows say whether the strategy's
\* constructor and passport.use throw when called. su records the call:
\* its argument, its debug lines, the strategies constructed, the strategies handed to
\* passport.use, and what the call threw. The call reads nothing but its
\* argument, so one call per behaviour covers every call.
SetupStrategy(provider, strategyThrows, config, oauthArg, useThrows) ==
  /\ ~su.called
  /\ su' =
       IF Len(undefinedKeys(config)) # 0
         THEN [ called |-> TRUE, provider |-> provider, config |-> config,
                oauthArg |-> oauthArg,
                strategyThrows |-> strategyThrows, useThrows |-> useThrows,
                logs |-> NeedsLines(provider, config) \o <<LogSkip(provider)>>,
                constructed |-> <<>>, used |-> <<>>,
                threw |-> "nothing", returned |-> "undefined" ]
         ELSE LET instance == StrategyInstance(config, OauthOrDefault(oauthArg))
              IN  [ called |-> TRUE, provider |-> provider, config |-> config,
                    oauthArg |-> oauthArg,
                    strategyThrows |-> strategyThrows,
                    useThrows |-> useThrows,
                    logs |-> <<LogInit(provider)>>,
                    constructed |-> <<instance>>,
                    used |-> IF strategyThrows THEN <<>> ELSE <<instance>>,
                    threw |-> Thrown(strategyThrows, useThrows),
                    returned |-> IF Thrown(strategyThrows, useThrows) = "nothing"
                                   THEN "undefined" ELSE "nothing" ]
  /\ UNCHANGED v2vars

\* ------------------------------------------------------- specification

Init ==
  /\ rows = <<>>
  /\ users = <<>>
  /\ pc = [p \in Slots |-> "idle"]
  /\ args = [p \in Slots |-> [accessToken |-> NullString,
                              refreshToken |-> NullString,
                              profile |-> NullJson]]
  /\ op = [p \in Slots |-> NoOps]
  /\ oauth = [p \in Slots |-> 0]
  /\ created = [p \in Slots |-> FALSE]
  /\ user = [p \in Slots |-> NoUser]
  /\ createdUser = [p \in Slots |-> NoUser]
  /\ doneLog = [p \in Slots |-> <<>>]
  /\ escaped = [p \in Slots |-> FALSE]
  /\ calls = 0
  /\ overlapped = [p \in Slots |-> FALSE]
  /\ rivals = [p \in Slots |-> FALSE]
  /\ atCall = [p \in Slots |-> [link |-> NoUser, users |-> 0]]
  /\ su = NoSetup

Next ==
  \E p \in Slots :
    \/ \E a \in Logins : Invoke(p, a.accessToken, a.refreshToken, a.profile)
    \/ DbFindOrCreate(p)
    \/ AfterFind(p)
    \/ DbGetUser(p)
    \/ DbSave(p)
    \/ AfterAll(p)
    \/ DbCreateUser(p)
    \/ AfterCreate(p)
    \/ DbSetUser(p)
    \/ AfterSet(p)

Spec == Init /\ [][Next]_vars

\* The tables when the server starts with data: the identity (github, 7),
\* every column of its row set, linked to the user Eve.
StoredRow ==
  [ provider |-> "github", uid |-> "7",
    accessToken |-> "at0", refreshToken |-> "rt0",
    token |-> "t0", tokenSecret |-> "ts0",
    profileJson |-> [provider |-> "github", id |-> "7", displayName |-> "E."],
    userId |-> 1 ]

FrameInit ==
  /\ rows = <<StoredRow>>
  /\ users = <<[name |-> "E."]>>
  /\ pc = [p \in Slots |-> "idle"]
  /\ args = [p \in Slots |-> [accessToken |-> NullString,
                              refreshToken |-> NullString,
                              profile |-> NullJson]]
  /\ op = [p \in Slots |-> NoOps]
  /\ oauth = [p \in Slots |-> 0]
  /\ created = [p \in Slots |-> FALSE]
  /\ user = [p \in Slots |-> NoUser]
  /\ createdUser = [p \in Slots |-> NoUser]
  /\ doneLog = [p \in Slots |-> <<>>]
  /\ escaped = [p \in Slots |-> FALSE]
  /\ calls = 0
  /\ overlapped = [p \in Slots |-> FALSE]
  /\ rivals = [p \in Slots |-> FALSE]
  /\ atCall = [p \in Slots |-> [link |-> NoUser, users |-> 0]]
  /\ su = NoSetup

\* OAuth.V2 called for the two accounts of FrameLogins.
NextFrame ==
  \E p \in Slots :
    \/ \E a \in FrameLogins :
         Invoke(p, a.accessToken, a.refreshToken, a.profile)
    \/ DbFindOrCreate(p)
    \/ AfterFind(p)
    \/ DbGetUser(p)
    \/ DbSave(p)
    \/ AfterAll(p)
    \/ DbCreateUser(p)
    \/ AfterCreate(p)
    \/ DbSetUser(p)
    \/ AfterSet(p)

FrameSpec == FrameInit /\ [][NextFrame]_vars

\* OAuth.setupStrategy called with every argument of the bounded sets.
NextSetup ==
  \E provider \in ProviderNames, config \in Configs, oauthArg \in OauthArgs,
     strategyThrows \in BOOLEAN, useThrows \in BOOLEAN :
    SetupStrategy(provider, strategyThrows, config, oauthArg, useThrows)

SetupSpec == Init /\ [][NextSetup]_vars

\* ------------------------------------------------------------ the claims

\* The (provider, uid) pair an invocation logs in.
ProviderOf(p) == args[p].profile.provider
UidOf(p) == args[p].profile.id

\* A call done(null, u).
OkCall(u) == [err |-> NoError, user |-> u]

\* C1: a first login (findOrCreate had to create the row) that no other
\* invocation overlaps and in which no storage call rejects ends with exactly
\* one row for the pair, which it created, and exactly one user added, named
\* profile.displayName, the row linked to that user, and done(null, thatUser)
\* as its first call of done.
C1_FirstLoginCreatesBoth ==
  \A p \in Slots :
    (pc[p] = "finished" /\ created[p] /\ ~AnyRejected(p) /\ ~overlapped[p]) =>
      /\ Matching(ProviderOf(p), UidOf(p)) = {oauth[p]}
      /\ Len(users) = atCall[p].users + 1
      /\ op[p].create = "ok" /\ op[p].set = "ok"
      /\ createdUser[p] = Len(users)
      /\ users[createdUser[p]].name = args[p].profile.displayName
      /\ LinkOf(ProviderOf(p), UidOf(p)) = createdUser[p]
      /\ Len(doneLog[p]) >= 1
      /\ doneLog[p][1] = OkCall(createdUser[p])

\* Scenario A: the github login on empty tables has ended with one row, one
\* user named Ada, and done(null, user 1).
C1_Witness ==
  \E p \in Slots :
    /\ pc[p] = "finished" /\ created[p] /\ ~AnyRejected(p) /\ ~overlapped[p]
    /\ atCall[p].users = 0
    /\ args[p].profile.displayName = "Ada"
    /\ users = <<[name |-> "Ada"]>>
    /\ Len(rows) = 1 /\ rows[1].userId = 1
    /\ doneLog[p] = <<OkCall(1)>>

\* C2: an invocation whose identity was already linked to user u when it
\* started never issues User.create or setUser; when no other invocation
\* overlapped it, the users table keeps its size, every done(null, x) it
\* makes has x = u, and, no storage call having rejected, its first call of
\* done is done(null, u).
C2_RepeatLoginSameUser ==
  \A p \in Slots :
    (pc[p] # "idle" /\ atCall[p].link # NoUser) =>
      /\ op[p].create = "none" /\ op[p].set = "none"
      /\ createdUser[p] = NoUser
      /\ ~overlapped[p] =>
           /\ Len(users) = atCall[p].users
           /\ \A i \in 1..Len(doneLog[p]) :
                doneLog[p][i].err = NoError => doneLog[p][i].user = atCall[p].link
           /\ (pc[p] = "finished" /\ ~AnyRejected(p)) =>
                /\ Len(doneLog[p]) >= 1
                /\ doneLog[p][1] = OkCall(atCall[p].link)

\* Scenario B, twice: the third login in a row finds the identity linked to
\* user 1, the only user, and hands user 1 to done.
C2_Witness ==
  \E p \in Slots :
    /\ calls = 3 /\ pc[p] = "finished" /\ ~overlapped[p]
    /\ atCall[p].link = 1 /\ atCall[p].users = 1
    /\ rows[1].accessToken = args[p].accessToken
    /\ doneLog[p] = <<OkCall(1)>>
    /\ Len(users) = 1

\* C3: two invocations for the same pair, one of which created the row, no
\* storage call of either rejecting, do not both create a user, and their
\* done(null, u) calls name the same user.
C3_NoTwoUsersForOneIdentity ==
  \A p, q \in Slots :
    ( /\ p # q
      /\ ProviderOf(p) = ProviderOf(q) /\ UidOf(p) = UidOf(q)
      /\ pc[p] # "idle" /\ pc[q] # "idle"
      /\ created[p]
      /\ ~AnyRejected(p) /\ ~AnyRejected(q) ) =>
      /\ ~(createdUser[p] # NoUser /\ createdUser[q] # NoUser)
      /\ \A i \in 1..Len(doneLog[p]), j \in 1..Len(doneLog[q]) :
           (doneLog[p][i].err = NoError /\ doneLog[q][j].err = NoError) =>
             doneLog[p][i].user = doneLog[q][j].user

\* C4: once a storage call of an invocation has rejected, done is called at
\* most once, only with an error and no user, and exactly once by the time
\* the invocation has ended.
C4_RejectionReportedOnce ==
  \A p \in Slots :
    AnyRejected(p) =>
      /\ Len(doneLog[p]) <= 1
      /\ \A i \in 1..Len(doneLog[p]) :
           doneLog[p][i].err # NoError /\ doneLog[p][i].user = NoUser
      /\ pc[p] = "finished" => Len(doneLog[p]) = 1

\* setUser, the last storage call, rejected after the user was created, and
\* the invocation ended with the one call done(err).
C4_Witness ==
  \E p \in Slots :
    /\ pc[p] = "finished" /\ op[p].set = "err" /\ createdUser[p] # NoUser
    /\ doneLog[p] = <<CatchCall("SequelizeDatabaseError")>>

\* C5: whatever storage call rejects, and whether or not done(null, user)
\* throws in step 4 or 5, an invocation whose catch block (if it ran) returned
\* normally never calls done twice, and has called done exactly once when it
\* has ended.
C5_DoneExactlyOnce ==
  \A p \in Slots :
    ~escaped[p] =>
      /\ Len(doneLog[p]) <= 1
      /\ pc[p] = "finished" => Len(doneLog[p]) = 1

\* C6: at every call done(null, u), the row of the invocation's pair is
\* linked to u at that moment.
C6_DoneGetsTheLinkedUser ==
  [][ \A p \in Slots :
        ( /\ pc[p] # "finished" /\ pc'[p] = "finished"
          /\ Len(doneLog'[p]) >= 1
          /\ doneLog'[p][1].err = NoError ) =>
          /\ doneLog'[p][1].user # NoUser
          /\ LinkOf(ProviderOf(p), UidOf(p))' = doneLog'[p][1].user ]_vars

\* C7: no two rows share a (provider, uid) pair, and the pair is the key: a
\* findOrCreate that the database executed without failing leaves a row for
\* its pair, also when another provider's row holds the same uid.
C7_UniqueOnThePair ==
  /\ \A i, j \in 1..Len(rows) :
       (rows[i].provider = rows[j].provider /\ rows[i].uid = rows[j].uid) => i = j
  /\ \A p \in Slots :
       (Settled(op[p].find) /\ op[p].find # "err") =>
         Matching(ProviderOf(p), UidOf(p)) # {}

\* Some key of the config holds undefined.
HasUndefinedValue(config) == \E k \in DOMAIN config : config[k] = "undefined"

\* C8: with an undefined value in config, setupStrategy constructs no
\* strategy, does not call passport.use, throws nothing, returns undefined.
C8_SkipsWhenAValueIsUndefined ==
  (su.called /\ HasUndefinedValue(su.config)) =>
    /\ su.constructed = <<>>
    /\ su.used = <<>>
    /\ su.threw = "nothing"
    /\ su.returned = "undefined"

\* Scenario C: {clientID: "x", clientSecret: undefined} was skipped.
C8_Witness ==
  /\ su.called
  /\ su.config = [k \in {"clientID", "clientSecret"} |->
                    IF k = "clientID" THEN "abc" ELSE "undefined"]
  /\ su.used = <<>>
  /\ su.logs = <<LogNeeds(su.provider, "clientSecret"), LogSkip(su.provider)>>

\* The 'needs environment var' lines the claim expects: one per key holding
\* undefined, in key order.
ExpectedNeedsLines(provider, config) ==
  LET keys == SelectSeq(ObjectKeys(config), LAMBDA k : config[k] = "undefined")
  IN  [i \in 1..Len(keys) |-> LogNeeds(provider, keys[i])]

\* C9: with an undefined value in config, the log is one 'needs environment
\* var' line per undefined-valued key, none for any other key, then one
\* 'will not initialize' line.
C9_OneLinePerUndefinedKey ==
  (su.called /\ HasUndefinedValue(su.config)) =>
    su.logs = ExpectedNeedsLines(su.provider, su.config) \o <<LogSkip(su.provider)>>

\* C10: with no undefined value in config, setupStrategy constructs exactly
\* new strategy(config, oauth), oauth being the callback supplied or OAuth.V2,
\* logs neither a 'needs environment var' nor a 'will not initialize' line
\* and, the constructor having returned, calls passport.use exactly once,
\* with that instance.
C10_RegistersWhenComplete ==
  (su.called /\ ~HasUndefinedValue(su.config)) =>
    LET callback == IF su.oauthArg = "undefined" THEN "OAuth.V2" ELSE su.oauthArg
        instance == [config |-> su.config, oauth |-> callback]
    IN  /\ su.constructed = <<instance>>
        /\ \A i \in 1..Len(su.logs) :
             su.logs[i].msg \notin {"needs environment var", "will not initialize"}
        /\ su.threw # "strategy" => su.used = <<instance>>

\* A config of three defined values, two of them falsy, was registered with
\* the caller's callback.
C10_Witness ==
  /\ su.called
  /\ su.oauthArg = "customCallback"
  /\ su.config = [k \in ConfigKeys |->
                    IF k = "clientID" THEN "abc"
                    ELSE IF k = "clientSecret" THEN "emptyString" ELSE "null"]
  /\ su.used = <<[config |-> su.config, oauth |-> "customCallback"]>>
  /\ su.threw = "nothing"

\* C11: getUser and save are issued together and only once findOrCreate has
\* fulfilled with a row; User.create is issued only once getUser and save
\* have both fulfilled; when getUser or save has rejected, User.create and
\* setUser are never issued.
C11_AwaitOrder ==
  \A p \in Slots :
    /\ (op[p].get = "none") <=> (op[p].save = "none")
    /\ op[p].get # "none" => (op[p].find = "ok" /\ oauth[p] \in 1..Len(rows))
    /\ op[p].create # "none" => (op[p].get = "ok" /\ op[p].save = "ok")
    /\ op[p].set # "none" => op[p].create = "ok"
    /\ JoinRejected(p) => (op[p].create = "none" /\ op[p].set = "none")

\* User.create has been issued, getUser and save having fulfilled, while the
\* other invocation ended on a rejected save without issuing it.
C11_Witness ==
  \E p, q \in Slots :
    /\ op[p].create = "pending" /\ op[p].get = "ok" /\ op[p].save = "ok"
    /\ pc[q] = "finished" /\ Rejected(op[q].save) /\ op[q].get = "ok"
    /\ op[q].create = "none"

\* The first call of done that the claim expects of an invocation nothing
\* overlaps, given which of its storage calls rejected and the user its
\* identity was linked to: the same whichever of getUser and save ran first.
\* `joinError` is the error expected when getUser or save rejected.
ExpectedFirstCall(p, joinError) ==
  IF Rejected(op[p].find) THEN CatchCall(ErrorOf(op[p].find))
  ELSE IF JoinRejected(p) THEN CatchCall(joinError)
  ELSE IF atCall[p].link # NoUser THEN OkCall(atCall[p].link)
  ELSE IF Rejected(op[p].create) THEN CatchCall(ErrorOf(op[p].create))
  ELSE IF Rejected(op[p].set) THEN CatchCall(ErrorOf(op[p].set))
  ELSE OkCall(createdUser[p])

\* What getUser resolved to and what the tables hold for an invocation that
\* nothing overlaps: getUser gives the user linked at the call, whether or
\* not save has run; a fulfilled save has written the arguments and left the
\* link alone, whether or not getUser has run.
OrderFreeData(p) ==
  /\ op[p].get = "ok" => user[p] = atCall[p].link
  /\ op[p].save = "ok" =>
       /\ rows[oauth[p]].profileJson = args[p].profile
       /\ rows[oauth[p]].accessToken = args[p].accessToken
       /\ rows[oauth[p]].userId =
            IF op[p].set = "ok" THEN createdUser[p] ELSE atCall[p].link
  /\ Len(users) = atCall[p].users + (IF op[p].create = "ok" THEN 1 ELSE 0)

\* C12 as stated: for an invocation nothing overlaps, what getUser resolves
\* to, the rows and the arguments of done are fixed by the arguments, the
\* tables at the call and which storage calls reject, not by the order of
\* getUser and save (the error of a rejected join being getUser's when
\* getUser rejected, else save's).
C12_OrderIrrelevant ==
  \A p \in Slots :
    (pc[p] # "idle" /\ ~overlapped[p]) =>
      /\ OrderFreeData(p)
      /\ pc[p] = "finished" =>
           /\ Len(doneLog[p]) >= 1
           /\ doneLog[p][1] =
                ExpectedFirstCall(p, IF Rejected(op[p].get) THEN GetUserError
                                     ELSE SaveError)

\* C12 amended: the same, except that when getUser and save both reject the
\* error handed to done is that of the one that rejected first.
C12_OrderIrrelevantUnlessBothReject ==
  \A p \in Slots :
    (pc[p] # "idle" /\ ~overlapped[p]) =>
      /\ OrderFreeData(p)
      /\ pc[p] = "finished" =>
           /\ Len(doneLog[p]) >= 1
           /\ doneLog[p][1] =
                ExpectedFirstCall(p, IF op[p].get = "err" THEN GetUserError
                                     ELSE SaveError)

\* On a linked identity, save has run before getUser (the row holds the new
\* token, getUser is still pending) and nothing overlaps the invocation.
C12_Witness ==
  \E p \in Slots :
    /\ ~overlapped[p] /\ atCall[p].link # NoUser
    /\ op[p].save = "ok" /\ op[p].get = "pending"
    /\ args[p].accessToken = "at2"
    /\ rows[oauth[p]].accessToken = "at2"

\* The identity of invocation p collides: no row has its (provider, uid) pair
\* and some row, of another provider, has its uid.
Collides(p) ==
  /\ Matching(ProviderOf(p), UidOf(p)) = {}
  /\ \E i \in 1..Len(rows) : rows[i].uid = UidOf(p)

C13_Step ==
  \A p \in Slots :
    /\ (op[p].find = "pending" /\ Settled(op'[p].find) /\ Collides(p)) =>
         /\ Rejected(op'[p].find)
         /\ rows' = rows /\ users' = users
    /\ (op[p].find = "uniq" /\ pc[p] = "awaitFind" /\ pc'[p] = "finished") =>
         /\ rows' = rows /\ users' = users
         /\ Len(doneLog'[p]) >= 1
         /\ doneLog'[p][1] = CatchCall("SequelizeUniqueConstraintError")
    /\ op'[p].find = "uniq" =>
         /\ op'[p].get = "none" /\ op'[p].save = "none"
         /\ op'[p].create = "none" /\ op'[p].set = "none"
         /\ oauth'[p] = 0 /\ ~created'[p]
         /\ user'[p] = NoUser /\ createdUser'[p] = NoUser

\* C13: a login whose uid is held by a row of another provider cannot create
\* its row: findOrCreate rejects, the invocation issues no other storage call
\* and creates no user, it hands done the error and no user, and its steps
\* leave every row, the colliding row's link included, and every user as
\* they were.
C13_CollisionIsReported == [][C13_Step]_vars

\* A google login with uid 42 has finished with the unique-constraint error
\* while the github row with uid 42 is linked to a user.
C13_Witness ==
  \E p \in Slots :
    /\ pc[p] = "finished" /\ op[p].find = "uniq"
    /\ ProviderOf(p) = "google"
    /\ doneLog[p] = <<CatchCall("SequelizeUniqueConstraintError")>>
    /\ \E i \in 1..Len(rows) :
         /\ rows[i].provider = "github" /\ rows[i].uid = UidOf(p)
         /\ rows[i].userId # NoUser

\* Invocation p makes its first call of done in this step, and it is
\* done(null, user).
CallsDoneWithUser(p) ==
  /\ pc[p] # "finished" /\ pc'[p] = "finished"
  /\ Len(doneLog'[p]) >= 1
  /\ doneLog'[p][1].err = NoError

C14_Step ==
  \A p \in Slots :
    (CallsDoneWithUser(p) /\ ~rivals'[p]) =>
      /\ Matching(ProviderOf(p), UidOf(p))' = {oauth[p]}
      /\ rows'[oauth[p]].accessToken = args[p].accessToken
      /\ rows'[oauth[p]].profileJson = args[p].profile

\* C14: when an invocation calls done(null, user) and no other invocation for
\* the same (provider, id) was in flight during it, the one row of that pair
\* then holds the invocation's accessToken and profile, on a first login and
\* on a later one.
C14_RowHoldsLatestTokenAndProfile == [][C14_Step]_vars

\* A later login of a linked identity, with another token and another
\* display name, overlapped only by a login of another provider, has handed
\* the linked user to done and the row holds its token and profile.
C14_Witness ==
  \E p \in Slots :
    /\ pc[p] = "finished" /\ ~rivals[p] /\ overlapped[p]
    /\ atCall[p].link # NoUser
    /\ doneLog[p] = <<OkCall(atCall[p].link)>>
    /\ args[p].accessToken = "at2"
    /\ rows[oauth[p]].accessToken = "at2"
    /\ rows[oauth[p]].profileJson = args[p].profile

\* The call took the skip path: its last debug line is 'will not
\* initialize' and it returned without constructing a strategy.
TookSkipPath ==
  /\ su.logs # <<>>
  /\ su.logs[Len(su.logs)] = LogSkip(su.provider)
  /\ su.constructed = <<>> /\ su.used = <<>>

\* The call went on to register: it logged 'initializing provider' alone and
\* constructed the strategy.
TookRegisterPath ==
  /\ su.logs = <<LogInit(su.provider)>>
  /\ Len(su.constructed) = 1

\* C15: setupStrategy skips exactly when some key present in config holds
\* undefined; otherwise (values defined though falsy, keys missing, the
\* empty config) it goes on to register.
C15_SkipsIffAValueIsUndefined ==
  su.called =>
    /\ TookSkipPath <=> HasUndefinedValue(su.config)
    /\ TookRegisterPath <=> ~HasUndefinedValue(su.config)

\* The config {clientID: false}, its other settings missing, was registered.
C15_Witness ==
  /\ su.called
  /\ su.config = [k \in {"clientID"} |-> "false"]
  /\ TookRegisterPath
  /\ su.used = su.constructed
  /\ su.threw = "nothing"

\* C16: with no undefined value in config, what the strategy's constructor
\* throws leaves setupStrategy without passport.use having been called, and
\* what passport.use throws leaves setupStrategy too; in both cases the call
\* does not return.
C16_ThrowsPropagate ==
  (su.called /\ ~HasUndefinedValue(su.config)) =>
    /\ su.strategyThrows =>
         /\ su.threw = "strategy" /\ su.returned = "nothing"
         /\ su.used = <<>>
    /\ (~su.strategyThrows /\ su.useThrows) =>
         /\ su.threw = "passport.use" /\ su.returned = "nothing"
         /\ su.used = su.constructed /\ Len(su.used) = 1

\* With a complete config the constructor threw: the error left
\* setupStrategy and passport.use was not called, though it would have
\* thrown too.
C16_Witness ==
  /\ su.called /\ DOMAIN su.config = ConfigKeys
  /\ ~HasUndefinedValue(su.config)
  /\ su.strategyThrows /\ su.useThrows
  /\ su.logs = <<LogInit(su.provider)>>
  /\ su.threw = "strategy" /\ su.used = <<>>

\* C17: once an invocation that created a user has called done, whatever it
\* handed to done, the row of its identity references that user, so the user
\* it created is referenced by an identity.
C17_NoOrphanUser ==
  \A p \in Slots :
    (pc[p] = "finished" /\ createdUser[p] # NoUser) =>
      /\ oauth[p] \in 1..Len(rows)
      /\ rows[oauth[p]].userId = createdUser[p]

\* Invocation p's save or setUser is executed in this step.
WritesRow(p) ==
  \/ op[p].save = "pending" /\ op'[p].save = "ok"
  \/ op[p].set = "pending" /\ op'[p].set = "ok"

C18_Step ==
  /\ Len(rows') >= Len(rows)
  /\ Len(users') >= Len(users)
  /\ \A u \in 1..Len(users) : users'[u] = users[u]
  /\ \A i \in 1..Len(rows) :
       /\ rows'[i].provider = rows[i].provider
       /\ rows'[i].uid = rows[i].uid
       /\ rows'[i].refreshToken = rows[i].refreshToken
       /\ rows'[i].token = rows[i].token
       /\ rows'[i].tokenSecret = rows[i].tokenSecret
       /\ rows'[i] # rows[i] =>
            \E p \in Slots :
              /\ WritesRow(p)
              /\ rows[i].provider = ProviderOf(p) /\ rows[i].uid = UidOf(p)
  /\ \A i \in 1..Len(rows') :
       rows'[i].refreshToken \notin { a.refreshToken : a \in FrameLogins }

\* C18: no step of OAuth.V2 removes a row or a user or changes a user; of a
\* row it leaves provider, uid, refreshToken, token and tokenSecret as they
\* were and changes nothing at all unless the row is that of the identity
\* of the invocation whose save or setUser it executes; no row ever holds a
\* refreshToken argument.
C18_OnlyProfileTokenAndLinkChange == [][C18_Step]_vars

\* Both accounts have logged in: the stored row holds the new token and
\* profile and its other columns and its user as before, the new account
\* has a row of its own linked to a new user, and the user Eve had is as it
\* was.
C18_Witness ==
  /\ Len(rows) = 2 /\ Len(users) = 2
  /\ rows[1] = [StoredRow EXCEPT !.accessToken = "at2",
                                 !.profileJson.displayName = "Eve"]
  /\ rows[2] = [NewRow("github", "42") EXCEPT
                  !.accessToken = "at1",
                  !.profileJson = [provider |-> "github", id |-> "42",
                                   displayName |-> "Ada"],
                  !.userId = 2]
  /\ users = <<[name |-> "E."], [name |-> "Ada"]>>
  /\ \A p \in Slots : pc[p] = "finished" /\ NoPending(p)

====
